---- MODULE Spec2Model ----
(***************************************************************************)
(* The document-integrity workflow of frontend/src/App.js: the client-side *)
(* SHA-256 hasher, the session state held by the App component, the three  *)
(* handlers (handleFileChange, handleRegister, handleVerify) with their    *)
(* suspension points, and the controls of the rendered surface.            *)
(*                                                                         *)
(* JavaScript values are written as follows.  A string is a string, and a  *)
(* template literal is the concatenation of its parts (the emoji that      *)
(* opens some of the status texts is left out).  null is NULL, and a       *)
(* non-null value v held where null may be held is <<v>>.  An object is a  *)
(* record that has exactly the fields the object has, so that a missing    *)
(* field is a field outside DOMAIN.                                        *)
(***************************************************************************)
EXTENDS Integers, Sequences, FiniteSets, Bags, TLC

VARIABLES file, docHash, status, result, loading, errorMessage,
          inflight, ledger, outcome, uncaught, hashArray, hashHex

vars == <<file, docHash, status, result, loading, errorMessage,
          inflight, ledger, outcome, uncaught, hashArray, hashHex>>

\* the locals of calculateSha256's conversion
hexVars == <<hashArray, hashHex>>

(***************************************************************************)
(* Bounds of the model.                                                    *)
(***************************************************************************)
NumFiles == 2

MaxInFlight == 2

(***************************************************************************)
(* JavaScript values.                                                      *)
(***************************************************************************)
NULL == <<>>

EmptyString == ""

Undefined == "<undefined>"

Truthy(v) == v # EmptyString /\ v # Undefined

JsonNull == [jsonNull |-> TRUE]

EmptyObject == [k \in {} |-> TRUE]

Min(a, b) == IF a < b THEN a ELSE b

\* s.substring(0, n)
Substring(s, n) == SubSeq(s, 1, Min(n, Len(s)))

(***************************************************************************)
(* The files the user can pick.  content stands for the bytes of the file. *)
(***************************************************************************)
FileNames == <<"report.pdf", "invoice.pdf", "notes.txt", "scan.png", "draft.doc">>

FileTypes == <<"application/pdf", "application/pdf", "text/plain", "image/png", "application/msword">>

FileOf(i) == [name |-> FileNames[i], size |-> 1024 * i, type |-> FileTypes[i], content |-> i]

Files == {FileOf(i) : i \in 1..NumFiles}

\* e.target.files[0]: a file, or nothing when the selection is cleared
FileInputs == {NULL} \cup {<<f>> : f \in Files}

(***************************************************************************)
(* calculateSha256.  The digest primitive is the browser's; Sha256 stands  *)
(* for it as a fixed map from content to DigestLen bytes.                  *)
(***************************************************************************)
DigestLen == 32

Sha256(content) == [i \in 1..DigestLen |-> (content * 89 + i * 57 + content * i * i) % 256]

HexDigits == <<"0", "1", "2", "3", "4", "5", "6", "7", "8", "9", "a", "b", "c", "d", "e", "f">>

\* b.toString(16)
ToString16(b) == IF b < 16 THEN HexDigits[b + 1]
                 ELSE HexDigits[(b \div 16) + 1] \o HexDigits[(b % 16) + 1]

\* the conversion without padStart
PadStart2Omitted(s) == s

\* s.padStart(2, '0')
PadStart2(s) == IF Len(s) < 2 THEN "0" \o s ELSE s

RECURSIVE Join(_)
Join(parts) == IF parts = <<>> THEN "" ELSE Head(parts) \o Join(Tail(parts))

\* hashArray.map(b => b.toString(16).padStart(2, '0')).join('')
HashHex(bytes) == Join([i \in 1..Len(bytes) |-> PadStart2(ToString16(bytes[i]))])

\* the value calculateSha256 resolves with, tabulated once per file
HashOfFile == [f \in Files |-> HashHex(Sha256(f.content))]

Sha256Hex(f) == HashOfFile[f]

\* the errors calculateSha256 rejects with: the digest primitive's exception,
\* or the reader's error event, which has no message
DigestError == [name |-> "OperationError", message |-> "The operation failed"]

ReaderErrorEvent == [type |-> "error"]

HashErrors == {DigestError, ReaderErrorEvent}

\* error.message
MessageOf(error) == IF "message" \in DOMAIN error THEN error.message ELSE Undefined

(***************************************************************************)
(* The state of the App component after construction: the six useState     *)
(* cells.  Beside them, inflight is the bag of awaits that have not        *)
(* settled yet, each with what its handler holds in its closure; ledger is *)
(* the backend's registration records; outcome is what the await of the    *)
(* last handler run settled with (the response it was fulfilled with, the  *)
(* error its catch clause was given), NULL from the moment a handler       *)
(* changes the session until its await settles; uncaught tells whether an  *)
(* exception has left a handler.                                           *)
(***************************************************************************)
InitialStatus == "Select a file to begin..."

Digests == {Sha256Hex(f) : f \in Files}

NoRecord == [onChain |-> FALSE, offChain |-> FALSE]

Init ==
    /\ file = NULL
    /\ docHash = EmptyString
    /\ status = InitialStatus
    /\ result = NULL
    /\ loading = FALSE
    /\ errorMessage = EmptyString
    /\ inflight = EmptyBag
    /\ ledger = [d \in Digests |-> NoRecord]
    /\ outcome = NULL
    /\ uncaught = FALSE
    /\ hashArray = <<>>
    /\ hashHex = NULL

Pending == BagToSet(inflight)

PendingOf(kind) == {op \in Pending : op.kind = kind}

InFlightCount == BagCardinality(inflight)

Started(op) == inflight (+) SetToBag({op})

Finished(op) == inflight (-) SetToBag({op})

Outcome(stage, response, error) == <<[stage |-> stage, response |-> response, error |-> error]>>

\* reading a property of the caught value throws when the value is null
CatchThrows(error) == error = JsonNull

(***************************************************************************)
(* handleFileChange, up to the await of the hash.                          *)
(***************************************************************************)
HandleFileChange(selectedFile) ==
    IF selectedFile # NULL
    THEN /\ file' = selectedFile
         /\ result' = NULL
         /\ errorMessage' = EmptyString
         /\ status' = "Calculating SHA-256 for: " \o selectedFile[1].name \o "..."
         /\ loading' = TRUE
         /\ inflight' = Started([kind |-> "hash", file |-> selectedFile[1]])
         /\ outcome' = NULL
         /\ UNCHANGED <<docHash, ledger, uncaught>>
    ELSE /\ file' = NULL
         /\ docHash' = EmptyString
         /\ status' = InitialStatus
         /\ outcome' = NULL
         /\ UNCHANGED <<result, loading, errorMessage, inflight, ledger, uncaught>>

\* the hash resolves in a handler that has no finally block
HashResolvedWithoutFinally(op) ==
    /\ op \in PendingOf("hash")
    /\ LET hash == Sha256Hex(op.file) IN
        /\ docHash' = hash
        /\ status' = "Hash calculated: " \o Substring(hash, 10) \o "..."
    /\ inflight' = Finished(op)
    /\ outcome' = Outcome("hash", <<Sha256Hex(op.file)>>, NULL)
    /\ UNCHANGED <<file, result, errorMessage, ledger, uncaught, loading>>

\* the hash resolves: the rest of the try block, then finally
HashResolved(op) ==
    /\ op \in PendingOf("hash")
    /\ LET hash == Sha256Hex(op.file) IN
        /\ docHash' = hash
        /\ status' = "Hash calculated: " \o Substring(hash, 10) \o "..."
    /\ loading' = FALSE
    /\ inflight' = Finished(op)
    /\ outcome' = Outcome("hash", <<Sha256Hex(op.file)>>, NULL)
    /\ UNCHANGED <<file, result, errorMessage, ledger, uncaught>>

\* the hash rejects: the catch block, then finally
HashRejected(op, error) ==
    /\ op \in PendingOf("hash")
    /\ status' = "Error calculating hash."
    /\ errorMessage' = MessageOf(error)
    /\ loading' = FALSE
    /\ inflight' = Finished(op)
    /\ outcome' = Outcome("hash", NULL, <<error>>)
    /\ uncaught' = (uncaught \/ CatchThrows(error))
    /\ UNCHANGED <<file, docHash, result, ledger>>

(***************************************************************************)
(* The backend behind API_URL and its ledger, as the specification states  *)
(* them at the boundary: a registration record per digest with an on-chain *)
(* facet and an off-chain facet, the verdict table, and the replies to     *)
(* POST /register and POST /verify.                                        *)
(***************************************************************************)
Verdict(onChainPresent, offChainPresent) ==
    IF onChainPresent
    THEN IF offChainPresent THEN "VERIFIED_OK" ELSE "VERIFIED_ON_CHAIN_ONLY"
    ELSE "NOT_FOUND"

TxOf(digest) == "0x" \o digest

OnChainData(digest) == [owner |-> "0xOwner", txHash |-> TxOf(digest), blockNumber |-> 1]

OffChainData == [filename |-> "stored filename", uploader |-> "ClientDemoUser"]

\* the body of a 2xx reply to POST /verify for a record of the ledger
VerifyData(digest, rec) ==
    LET verdict == Verdict(rec.onChain, rec.offChain) IN
    IF rec.onChain
    THEN IF rec.offChain
         THEN [status |-> verdict, onChainData |-> OnChainData(digest),
               offChainData |-> OffChainData]
         ELSE [status |-> verdict, onChainData |-> OnChainData(digest)]
    ELSE IF rec.offChain
         THEN [status |-> verdict, offChainData |-> OffChainData]
         ELSE [status |-> verdict]

\* the errors axios rejects with
NetworkError == [message |-> "Network Error"]

HttpError(code, data) ==
    [message |-> "Request failed with status code " \o code,
     response |-> [status |-> code, data |-> data]]

Fulfilled(newLedger, data) == [ok |-> TRUE, ledger |-> newLedger, response |-> [data |-> data]]

Rejected(newLedger, error) == [ok |-> FALSE, ledger |-> newLedger, error |-> error]

\* what may come back for a register request with this body
RegisterReplies(body) ==
    LET d == body.docHash
        rec == ledger[d]
        receipt == [receipt |-> [transactionHash |-> TxOf(d)]]
        anchored == [ledger EXCEPT ![d].onChain = TRUE]
        stored == [ledger EXCEPT ![d].offChain = TRUE]
        both == [anchored EXCEPT ![d].offChain = TRUE]
    IN  {Rejected(ledger, NetworkError),
         Rejected(ledger, HttpError("500", EmptyObject)),
         Fulfilled(ledger, EmptyObject),
         Fulfilled(ledger, [receipt |-> EmptyObject])}
        \cup (IF rec.onChain
              THEN {Rejected(ledger, HttpError("409", [message |-> "Document already registered"]))}
              ELSE {Fulfilled(both, receipt),
                    Fulfilled(anchored, receipt),
                    Rejected(stored, HttpError("500", [message |-> "Ledger transaction failed"]))})

\* what may come back for a verify request with this body
VerifyReplies(body) ==
    {Rejected(ledger, NetworkError),
     Rejected(ledger, HttpError("500", [message |-> "Verification error"])),
     Fulfilled(ledger, JsonNull),
     Fulfilled(ledger, VerifyData(body.docHash, ledger[body.docHash]))}

(***************************************************************************)
(* handleRegister and handleVerify.                                        *)
(***************************************************************************)
JsOr(a, b) == IF Truthy(a) THEN a ELSE b

\* error.response?.data?.message
ResponseDataMessage(error) ==
    IF /\ "response" \in DOMAIN error
       /\ error.response.data # JsonNull
       /\ "message" \in DOMAIN error.response.data
    THEN error.response.data.message
    ELSE Undefined

\* a msg that is the transport's message whatever the backend answered
CatchMessageOfTransport(error) == MessageOf(error)

\* const msg = error.response?.data?.message || error.message
CatchMessage(error) == JsOr(ResponseDataMessage(error), MessageOf(error))

\* the TypeError of a property read on undefined or null
TypeError == [name |-> "TypeError", message |-> "Cannot read properties of undefined"]

\* if (!docHash || !file)
NotReady == ~Truthy(docHash) \/ file = NULL

\* a payload that also carries the bytes of the file
RegisterPayloadWithContent ==
    [docHash |-> docHash,
     filename |-> file[1].name,
     filesize |-> file[1].size,
     mimeType |-> file[1].type,
     uploader |-> "ClientDemoUser",
     content |-> file[1].content]

RegisterPayload ==
    [docHash |-> docHash,
     filename |-> file[1].name,
     filesize |-> file[1].size,
     mimeType |-> file[1].type,
     uploader |-> "ClientDemoUser"]

VerifyPayload == [docHash |-> docHash]

\* handleRegister, up to the await of the post; the alert of the guard
\* leaves the state as it is
HandleRegister ==
    IF NotReady
    THEN UNCHANGED vars
    ELSE /\ loading' = TRUE
         /\ result' = NULL
         /\ errorMessage' = EmptyString
         /\ status' = "Attempting to register on-chain..."
         /\ inflight' = Started([kind |-> "register", file |-> file[1], body |-> RegisterPayload])
         /\ outcome' = NULL
         /\ UNCHANGED <<file, docHash, ledger, uncaught>>

\* response.data.receipt.transactionHash can be read
HasTransactionHash(data) ==
    /\ data # JsonNull
    /\ "receipt" \in DOMAIN data
    /\ "transactionHash" \in DOMAIN data.receipt

\* a try block that keeps the receipt alone
RegisterSucceededKeepingReceipt(data) ==
    /\ status' = "Registered! TX: " \o Substring(data.receipt.transactionHash, 10) \o "..."
    /\ result' = <<data.receipt>>
    /\ UNCHANGED <<file, docHash, errorMessage, uncaught>>

\* the rest of the try block of handleRegister
RegisterSucceeded(data) ==
    /\ status' = "Registered! TX: " \o Substring(data.receipt.transactionHash, 10) \o "..."
    /\ result' = <<data>>
    /\ UNCHANGED <<file, docHash, errorMessage, uncaught>>

\* a catch block that also drops the digest
RegisterCaughtDroppingDigest(error) ==
    /\ errorMessage' = "Registration Failed: " \o CatchMessage(error)
    /\ status' = "Registration failed."
    /\ docHash' = EmptyString
    /\ uncaught' = (uncaught \/ CatchThrows(error))
    /\ UNCHANGED <<file, result>>

\* a catch block that reports the message and leaves the status line
RegisterCaughtKeepingStatus(error) ==
    /\ errorMessage' = "Registration Failed: " \o CatchMessage(error)
    /\ uncaught' = (uncaught \/ CatchThrows(error))
    /\ UNCHANGED <<file, docHash, result, status>>

\* the catch block of handleRegister
RegisterCaught(error) ==
    /\ errorMessage' = "Registration Failed: " \o CatchMessage(error)
    /\ status' = "Registration failed."
    /\ uncaught' = (uncaught \/ CatchThrows(error))
    /\ UNCHANGED <<file, docHash, result>>

\* the post of handleRegister settles: try or catch, then finally
RegisterSettled(op, reply) ==
    /\ op \in PendingOf("register")
    /\ reply \in RegisterReplies(op.body)
    /\ ledger' = reply.ledger
    /\ IF reply.ok
       THEN IF HasTransactionHash(reply.response.data)
            THEN /\ RegisterSucceeded(reply.response.data)
                 /\ outcome' = Outcome("register", <<reply.response>>, NULL)
            ELSE /\ RegisterCaught(TypeError)
                 /\ outcome' = Outcome("register", <<reply.response>>, <<TypeError>>)
       ELSE /\ RegisterCaught(reply.error)
            /\ outcome' = Outcome("register", NULL, <<reply.error>>)
    /\ loading' = FALSE
    /\ inflight' = Finished(op)

\* handleVerify without its setResult(null)
HandleVerifyKeepingResult ==
    IF NotReady
    THEN UNCHANGED vars
    ELSE /\ loading' = TRUE
         /\ errorMessage' = EmptyString
         /\ status' = "Checking integrity against on-chain record..."
         /\ inflight' = Started([kind |-> "verify", file |-> file[1], body |-> VerifyPayload])
         /\ outcome' = NULL
         /\ UNCHANGED <<file, docHash, result, ledger, uncaught>>

\* handleVerify, up to the await of the post
HandleVerify ==
    IF NotReady
    THEN UNCHANGED vars
    ELSE /\ loading' = TRUE
         /\ result' = NULL
         /\ errorMessage' = EmptyString
         /\ status' = "Checking integrity against on-chain record..."
         /\ inflight' = Started([kind |-> "verify", file |-> file[1], body |-> VerifyPayload])
         /\ outcome' = NULL
         /\ UNCHANGED <<file, docHash, ledger, uncaught>>

\* data.status
StatusField(data) == IF "status" \in DOMAIN data THEN data.status ELSE "undefined"

\* the branches of newStatus with the two verified texts exchanged
VerdictStatusExchanged(data) ==
    IF StatusField(data) = "VERIFIED_OK"
    THEN "Hash found on-chain, but off-chain metadata is missing. Integrity check **OK**."
    ELSE IF StatusField(data) = "VERIFIED_ON_CHAIN_ONLY"
    THEN "Integrity **VERIFIED**. Document is original and registered on-chain."
    ELSE "Not found on-chain. Document is UNREGISTERED or TAMPERED."

\* newStatus of handleVerify
VerdictStatus(data) ==
    IF StatusField(data) = "VERIFIED_OK"
    THEN "Integrity **VERIFIED**. Document is original and registered on-chain."
    ELSE IF StatusField(data) = "VERIFIED_ON_CHAIN_ONLY"
    THEN "Hash found on-chain, but off-chain metadata is missing. Integrity check **OK**."
    ELSE "Not found on-chain. Document is UNREGISTERED or TAMPERED."

\* a try block that starts the session over once the verdict is in
VerifySucceededDroppingDigest(data) ==
    /\ status' = VerdictStatus(data)
    /\ result' = <<data>>
    /\ docHash' = EmptyString
    /\ UNCHANGED <<file, errorMessage, uncaught>>

\* the rest of the try block of handleVerify
VerifySucceeded(data) ==
    /\ status' = VerdictStatus(data)
    /\ result' = <<data>>
    /\ UNCHANGED <<file, docHash, errorMessage, uncaught>>

\* the catch block of handleVerify
VerifyCaught(error) ==
    /\ errorMessage' = "Verification Failed: " \o CatchMessage(error)
    /\ status' = "Verification failed."
    /\ uncaught' = (uncaught \/ CatchThrows(error))
    /\ UNCHANGED <<file, docHash, result>>

\* the post of handleVerify settles: try or catch, then finally
VerifySettled(op, reply) ==
    /\ op \in PendingOf("verify")
    /\ reply \in VerifyReplies(op.body)
    /\ ledger' = reply.ledger
    /\ IF reply.ok
       THEN IF reply.response.data # JsonNull
            THEN /\ VerifySucceeded(reply.response.data)
                 /\ outcome' = Outcome("verify", <<reply.response>>, NULL)
            ELSE /\ VerifyCaught(TypeError)
                 /\ outcome' = Outcome("verify", <<reply.response>>, <<TypeError>>)
       ELSE /\ VerifyCaught(reply.error)
            /\ outcome' = Outcome("verify", NULL, <<reply.error>>)
    /\ loading' = FALSE
    /\ inflight' = Finished(op)

(***************************************************************************)
(* The controls of the rendered surface.                                   *)
(***************************************************************************)
\* the file input with its disabled attribute left out
FileInputNeverDisabled == FALSE

\* <input type="file" disabled={loading} />
FileInputDisabled == loading

\* <button onClick={handleRegister} disabled={loading || !docHash}>
RegisterDisabled == loading \/ ~Truthy(docHash)

\* <button onClick={handleVerify} disabled={loading || !docHash}>
VerifyDisabled == loading \/ ~Truthy(docHash)

\* {result && ... {result.offChainData && ...}}
OffChainFacetRendered == result # NULL /\ "offChainData" \in DOMAIN result[1]

\* {result && ... {result.onChainData && ...}}
OnChainFacetRendered == result # NULL /\ "onChainData" \in DOMAIN result[1]

\* s.includes(t)
Includes(s, t) == \E i \in 1..(Len(s) - Len(t) + 1) : SubSeq(s, i, i + Len(t) - 1) = t

getStatusStyle(currentStatus) ==
    IF Includes(currentStatus, "VERIFIED_OK")
    THEN [color |-> "green", fontWeight |-> "bold"]
    ELSE IF Includes(currentStatus, "UNREGISTERED") \/ Includes(currentStatus, "TAMPERED")
    THEN [color |-> "red", fontWeight |-> "bold"]
    ELSE IF Includes(currentStatus, "failed") \/ Includes(currentStatus, "Error")
    THEN [color |-> "darkred"]
    ELSE [color |-> "gray"]

\* <span style={getStatusStyle(status)}>{status}</span>
StatusLineStyle == getStatusStyle(status)

(***************************************************************************)
(* Two specifications.  In Spec the handlers are invoked as functions of   *)
(* the controller, at any time.  In SurfaceSpec every event comes through  *)
(* a control of the rendered surface, which must be enabled.               *)
(***************************************************************************)
CanStart == InFlightCount < MaxInFlight

InvokeFileChange(sel) ==
    /\ sel # NULL => CanStart
    /\ HandleFileChange(sel)
    /\ UNCHANGED hexVars

InvokeRegister == CanStart /\ HandleRegister /\ UNCHANGED hexVars

InvokeVerify == CanStart /\ HandleVerify /\ UNCHANGED hexVars

Settle ==
    \/ \E op \in PendingOf("hash") : HashResolved(op) /\ UNCHANGED hexVars
    \/ \E op \in PendingOf("hash"), error \in HashErrors : HashRejected(op, error) /\ UNCHANGED hexVars
    \/ \E op \in PendingOf("register") : \E reply \in RegisterReplies(op.body) :
           RegisterSettled(op, reply) /\ UNCHANGED hexVars
    \/ \E op \in PendingOf("verify") : \E reply \in VerifyReplies(op.body) :
           VerifySettled(op, reply) /\ UNCHANGED hexVars

Next ==
    \/ \E sel \in FileInputs : InvokeFileChange(sel)
    \/ InvokeRegister
    \/ InvokeVerify
    \/ Settle

Spec == Init /\ [][Next]_vars

OnFileInputChange(sel) == ~FileInputDisabled /\ InvokeFileChange(sel)

OnRegisterClick == ~RegisterDisabled /\ InvokeRegister

OnVerifyClick == ~VerifyDisabled /\ InvokeVerify

SurfaceNext ==
    \/ \E sel \in FileInputs : OnFileInputChange(sel)
    \/ OnRegisterClick
    \/ OnVerifyClick
    \/ Settle

SurfaceSpec == Init /\ [][SurfaceNext]_vars

\* the surface, with every pending hash or post settling in the end
FairSurfaceSpec == SurfaceSpec /\ WF_vars(Settle)

(***************************************************************************)
(* A third specification, for the conversion of calculateSha256 taken by   *)
(* itself: hashArray is any byte array of the bounded set HexInputs (every *)
(* single byte, every array of 2..MaxHexLen bytes of ByteSamples, which    *)
(* has the bytes around the one-digit/two-digit border, and the digest of  *)
(* every file), and the one step is the map and join of line 19.           *)
(***************************************************************************)
MaxHexLen == 2

ByteSamples == {0, 1, 10, 15, 16, 255}

HexInputs ==
    {<<>>} \cup {<<b>> : b \in 0..255}
           \cup UNION {[1..n -> ByteSamples] : n \in 2..MaxHexLen}
           \cup {Sha256(f.content) : f \in Files}

HexInit ==
    /\ hashArray \in HexInputs
    /\ hashHex = NULL
    /\ file = NULL
    /\ docHash = EmptyString
    /\ status = InitialStatus
    /\ result = NULL
    /\ loading = FALSE
    /\ errorMessage = EmptyString
    /\ inflight = EmptyBag
    /\ ledger = [d \in Digests |-> NoRecord]
    /\ outcome = NULL
    /\ uncaught = FALSE

\* const hashHex = hashArray.map(...).join('')
Encode ==
    /\ hashHex = NULL
    /\ hashHex' = <<HashHex(hashArray)>>
    /\ UNCHANGED <<hashArray, file, docHash, status, result, loading, errorMessage,
                   inflight, ledger, outcome, uncaught>>

HexNext == Encode

HexSpec == HexInit /\ [][HexNext]_vars

(***************************************************************************)
(* The states of the workflow, read from the session.                      *)
(***************************************************************************)
\* no file is selected
Idle == file = NULL

\* a hash of the currently selected file is in progress
Hashing == file # NULL /\ \E op \in PendingOf("hash") : op.file = file[1]

Actions == PendingOf("register") \cup PendingOf("verify")

\* the step is the settling of op
Settles(op) == inflight' = Finished(op)

ActionsInFlight == BagCardinality([op \in Actions |-> inflight[op]])

(***************************************************************************)
(* C1.  Reset isolation: when a register or verify request was sent for    *)
(* one file and another file has been selected since, the arrival of that  *)
(* request's response, success or failure, leaves docHash, status, result, *)
(* errorMessage and loading of the new session as they are.                *)
(***************************************************************************)
C1_StaleResponseDiscarded ==
    [][\A op \in Actions :
          (Settles(op) /\ file # NULL /\ file[1] # op.file)
              => UNCHANGED <<docHash, status, result, errorMessage, loading>>]_vars

(***************************************************************************)
(* C2.  Selecting a new file discards the prior digest and result: from    *)
(* the file-selection event until the new hash completes, docHash does not *)
(* hold the digest of a previously selected file (it is empty, or at most  *)
(* the digest of the very file that is being hashed), result is null and   *)
(* errorMessage is empty.                                                  *)
(***************************************************************************)
C2_SelectionDiscardsPriorState ==
    Hashing => /\ docHash \in {EmptyString, Sha256Hex(file[1])}
               /\ result = NULL
               /\ errorMessage = EmptyString

(***************************************************************************)
(* C3.  A register or verify invoked while the session is Idle or Hashing  *)
(* is rejected: no request is sent and status, result, errorMessage and    *)
(* loading are left unchanged.                                             *)
(***************************************************************************)
C3_RejectedUnlessHashReady ==
    [][((Idle \/ Hashing) /\ (HandleRegister \/ HandleVerify))
          => UNCHANGED <<inflight, status, result, errorMessage, loading>>]_vars

(***************************************************************************)
(* C4.  A register or verify invoked while another register or verify is   *)
(* in flight sends no request and changes no state, so that at most one of *)
(* them is in flight.                                                      *)
(***************************************************************************)
C4_RejectedWhileActionInFlight ==
    [][(Actions # {} /\ (HandleRegister \/ HandleVerify))
          => (UNCHANGED vars /\ ActionsInFlight' <= 1)]_vars

(***************************************************************************)
(* C5.  With every event issued through the rendered surface, at most one  *)
(* operation among hash, register and verify is in flight, and while one   *)
(* is in flight the file input is disabled, so that no new file can be     *)
(* selected (and the two buttons are disabled as well).                    *)
(***************************************************************************)
C5_OneOperationAtATime ==
    /\ InFlightCount <= 1
    /\ InFlightCount = 1 => FileInputDisabled /\ RegisterDisabled /\ VerifyDisabled

\* a register is in flight and the user is kept from selecting a file
C5_Witness == PendingOf("register") # {} /\ FileInputDisabled /\ file # NULL

(***************************************************************************)
(* C6.  A register or verify never changes the selected file or the        *)
(* digest: the step that sends the request and the step that settles it,   *)
(* in success or in failure, leave file and docHash as they are; when the  *)
(* action ends they are the file and the digest the request was sent for,  *)
(* both buttons are enabled again, and a request sent then carries that    *)
(* same digest.                                                            *)
(***************************************************************************)
C6_ActionKeepsFileAndDigest ==
    [][/\ \A op \in Actions :
            Settles(op) => /\ file' = file
                           /\ docHash' = docHash
                           /\ file' = <<op.file>>
                           /\ docHash' = op.body.docHash
                           /\ ~NotReady'
                           /\ ~RegisterDisabled'
                           /\ ~VerifyDisabled'
       /\ (HandleRegister \/ HandleVerify) =>
              /\ file' = file
              /\ docHash' = docHash
              /\ \A op \in Actions' : op.body.docHash = docHash]_vars

\* a register has failed and the file and its digest are still there
C6_Witness ==
    /\ outcome # NULL
    /\ outcome[1].stage = "register"
    /\ outcome[1].error # NULL
    /\ file # NULL
    /\ docHash = Sha256Hex(file[1])
    /\ ~RegisterDisabled

(***************************************************************************)
(* C7.  Every error raised during hashing, register or verify is caught    *)
(* in the handler and ends in the Failed state of its stage: the status is *)
(* the failure status of the stage, result is null, loading is false, and  *)
(* no exception has left a handler.                                        *)
(***************************************************************************)
FailureStatus(stage) ==
    CASE stage = "hash" -> "Error calculating hash."
      [] stage = "register" -> "Registration failed."
      [] stage = "verify" -> "Verification failed."

Failed(stage) == outcome # NULL /\ outcome[1].stage = stage /\ outcome[1].error # NULL

C7_ErrorsEndInFailed ==
    /\ ~uncaught
    /\ \A stage \in {"hash", "register", "verify"} :
          Failed(stage) => status = FailureStatus(stage) /\ result = NULL /\ ~loading

\* a 2xx reply to register had no receipt.transactionHash
C7_Witness ==
    /\ Failed("register")
    /\ outcome[1].response # NULL
    /\ outcome[1].error = <<TypeError>>

(***************************************************************************)
(* C8.  A successful action settles with exactly what the backend          *)
(* returned.  After a successful register, result is the body of the       *)
(* response, with its receipt, and the status line names the transaction   *)
(* hash of that receipt.  After a successful verify, result is the body of *)
(* the response and the facets rendered are exactly the facets returned    *)
(* (none for a NOT_FOUND response without facets).  In both cases          *)
(* errorMessage is empty and loading is false.                             *)
(***************************************************************************)
Succeeded(stage) == outcome # NULL /\ outcome[1].stage = stage /\ outcome[1].error = NULL

Returned == outcome[1].response[1].data

C8_SuccessSettlesWithResponse ==
    /\ Succeeded("register") =>
          /\ result = <<Returned>>
          /\ "receipt" \in DOMAIN result[1]
          /\ status = "Registered! TX: "
                        \o Substring(Returned.receipt.transactionHash, 10) \o "..."
          /\ errorMessage = EmptyString
          /\ ~loading
    /\ Succeeded("verify") =>
          /\ result = <<Returned>>
          /\ result[1].status = Returned.status
          /\ OnChainFacetRendered <=> "onChainData" \in DOMAIN Returned
          /\ OffChainFacetRendered <=> "offChainData" \in DOMAIN Returned
          /\ Returned = [status |-> "NOT_FOUND"]
                => ~OnChainFacetRendered /\ ~OffChainFacetRendered
          /\ errorMessage = EmptyString
          /\ ~loading

\* a verify of a registered digest has settled with both facets
C8_Witness ==
    /\ Succeeded("verify")
    /\ result[1].status = "VERIFIED_OK"
    /\ OnChainFacetRendered
    /\ OffChainFacetRendered

(***************************************************************************)
(* C9.  Verdict classification is the decision table: after a successful   *)
(* verify the verdict held in result is one of the three, it is the one    *)
(* the table gives for the facets held in result and for the facets the    *)
(* ledger holds for the digest, whatever was requested before, and the     *)
(* status line reports that verdict.                                       *)
(***************************************************************************)
TableVerdict(onChainPresent, offChainPresent) ==
    CASE onChainPresent /\ offChainPresent -> "VERIFIED_OK"
      [] onChainPresent /\ ~offChainPresent -> "VERIFIED_ON_CHAIN_ONLY"
      [] ~onChainPresent -> "NOT_FOUND"

VerdictOnStatusLine ==
    CASE status = "Integrity **VERIFIED**. Document is original and registered on-chain."
            -> "VERIFIED_OK"
      [] status = "Hash found on-chain, but off-chain metadata is missing. Integrity check **OK**."
            -> "VERIFIED_ON_CHAIN_ONLY"
      [] status = "Not found on-chain. Document is UNREGISTERED or TAMPERED."
            -> "NOT_FOUND"
      [] OTHER -> "none"

C9_VerdictFollowsTable ==
    Succeeded("verify") =>
        LET data == result[1]
            verdict == TableVerdict("onChainData" \in DOMAIN data, "offChainData" \in DOMAIN data)
        IN  /\ data.status \in {"VERIFIED_OK", "VERIFIED_ON_CHAIN_ONLY", "NOT_FOUND"}
            /\ data.status = verdict
            /\ data.status = TableVerdict(ledger[docHash].onChain, ledger[docHash].offChain)
            /\ VerdictOnStatusLine = verdict

\* a verify has found the on-chain facet without the off-chain facet
C9_Witness ==
    /\ Succeeded("verify")
    /\ result[1].status = "VERIFIED_ON_CHAIN_ONLY"
    /\ OnChainFacetRendered
    /\ ~OffChainFacetRendered

(***************************************************************************)
(* C10.  No request carries file content: the body of every verify request *)
(* is the digest alone, and the body of every register request is the      *)
(* digest, the name, size and media type of the file, and the uploader id, *)
(* and nothing else.                                                       *)
(***************************************************************************)
C10_RequestsCarryNoContent ==
    \A op \in Actions :
        /\ op.body.docHash \in Digests
        /\ IF op.kind = "verify"
           THEN DOMAIN op.body = {"docHash"}
           ELSE /\ DOMAIN op.body = {"docHash", "filename", "filesize", "mimeType", "uploader"}
                /\ op.body.filename = op.file.name
                /\ op.body.filesize = op.file.size
                /\ op.body.mimeType = op.file.type
                /\ op.body.uploader = "ClientDemoUser"

\* a register request for a hashed file is on its way
C10_Witness ==
    \E op \in PendingOf("register") :
        /\ op.body.docHash = Sha256Hex(op.file)
        /\ op.body.filename = op.file.name

(***************************************************************************)
(* C11.  Verify is idempotent.  The verdict a verify settles with is the   *)
(* one the table gives for the record the ledger holds for the digest that *)
(* was sent; sending a verify and settling it change neither the ledger    *)
(* nor the file nor the digest, and leave the verify button enabled; and   *)
(* the ledger changes only when a register settles.  So a second verify on *)
(* the same file, with no register in between, settles with the verdict of *)
(* the first, and the first changes nothing the second depends on.         *)
(***************************************************************************)
C11_VerifyIdempotent ==
    [][/\ \A op \in PendingOf("verify") :
            Settles(op) =>
                /\ UNCHANGED <<file, docHash, ledger>>
                /\ op.body = [docHash |-> docHash]
                /\ ~VerifyDisabled'
                /\ Succeeded("verify")' =>
                      result'[1].status =
                          TableVerdict(ledger[docHash].onChain, ledger[docHash].offChain)
       /\ HandleVerify =>
              /\ UNCHANGED <<file, docHash, ledger>>
              /\ \A op \in PendingOf("verify")' : op.body = [docHash |-> docHash]
       /\ ledger' # ledger => \E op \in PendingOf("register") : Settles(op)]_vars

\* a verify has settled with a verdict and the next verify can be started
C11_Witness ==
    /\ Succeeded("verify")
    /\ result[1].status = "NOT_FOUND"
    /\ docHash = Sha256Hex(file[1])
    /\ ~VerifyDisabled

(***************************************************************************)
(* C12.  Registering a digest that is already registered never settles as  *)
(* a success, and a failed register tells a backend rejection from a       *)
(* transport failure: when the backend answered, errorMessage carries the  *)
(* backend's message, or the status code when it sent no message, and it   *)
(* differs from the message of a network failure; when the backend did not *)
(* answer, errorMessage carries the transport's message.                   *)
(***************************************************************************)
BackendAnswered(error) == "response" \in DOMAIN error

AnswerOf(error) ==
    IF "message" \in DOMAIN error.response.data
    THEN error.response.data.message
    ELSE "Request failed with status code " \o error.response.status

C12_DuplicateFailsDistinctly ==
    [][\A op \in PendingOf("register") :
          Settles(op) =>
              /\ ledger[op.body.docHash].onChain => Failed("register")' /\ result' = NULL
              /\ Failed("register")' =>
                    LET error == outcome'[1].error[1] IN
                    IF BackendAnswered(error)
                    THEN /\ errorMessage' = "Registration Failed: " \o AnswerOf(error)
                         /\ errorMessage' # "Registration Failed: " \o NetworkError.message
                    ELSE errorMessage' = "Registration Failed: " \o error.message]_vars

\* a register of a registered digest has failed with the backend's message
C12_Witness ==
    /\ Failed("register")
    /\ BackendAnswered(outcome[1].error[1])
    /\ outcome[1].error[1].response.status = "409"
    /\ errorMessage = "Registration Failed: Document already registered"
    /\ ledger[docHash].onChain

(***************************************************************************)
(* C13.  Every started operation runs to completion: provided the pending  *)
(* hash or post settles in the end, whenever loading is true it becomes    *)
(* false again, with the session in HashReady, Settled or Failed (the      *)
(* outcome of the operation is there) and the file input enabled.          *)
(***************************************************************************)
Completed ==
    /\ ~loading
    /\ ~FileInputDisabled
    /\ \E stage \in {"hash", "register", "verify"} : Succeeded(stage) \/ Failed(stage)

C13_OperationsComplete == loading ~> Completed

\* a register has run to completion in success
C13_Witness == Completed /\ Succeeded("register") /\ result # NULL

(***************************************************************************)
(* C14.  Every register or verify request that is sent carries the digest  *)
(* of the file that is selected when it is sent (for register, the file    *)
(* whose name, size and type are in the same body): a handler that starts  *)
(* a request puts Sha256Hex of the selected file into it.                  *)
(***************************************************************************)
C14_RequestCarriesDigestOfSelectedFile ==
    [][HandleRegister \/ HandleVerify =>
          \A op \in Actions' :
              /\ op.file = file[1]
              /\ op.body.docHash = Sha256Hex(file[1])]_vars

(***************************************************************************)
(* C15.  Clearing the selection (a file-change event with no file) returns *)
(* the session to the initial Idle state in full: file null, docHash       *)
(* empty, result null, errorMessage empty, loading false, status the       *)
(* initial prompt.                                                         *)
(***************************************************************************)
C15_ClearReturnsToIdle ==
    [][HandleFileChange(NULL) =>
          /\ file' = NULL
          /\ docHash' = EmptyString
          /\ result' = NULL
          /\ ~Truthy(errorMessage')
          /\ ~loading'
          /\ status' = InitialStatus]_vars

(***************************************************************************)
(* C16.  With events issued through the surface: while an operation is in  *)
(* flight (loading) result is null and errorMessage is empty; a result and *)
(* an error message are never there together (Settled and Failed exclude   *)
(* each other); and a non-empty docHash implies that a file is selected.   *)
(***************************************************************************)
C16_SessionInvariants ==
    /\ loading => result = NULL /\ errorMessage = EmptyString
    /\ ~(result # NULL /\ errorMessage # EmptyString)
    /\ docHash # EmptyString => file # NULL

\* a verify is in flight for a file that an earlier register has anchored
C16_Witness ==
    /\ loading
    /\ PendingOf("verify") # {}
    /\ docHash # EmptyString
    /\ ledger[docHash].onChain
    /\ result = NULL

(***************************************************************************)
(* C17.  The hex encoding gives two lower-case hexadecimal characters for  *)
(* every byte, in order and with nothing between them, the first of them   *)
(* "0" for a byte below 16; so 32 bytes give 64 characters, and two        *)
(* different byte arrays never give the same string.                       *)
(***************************************************************************)
LowerHexDigit(d) == SubSeq("0123456789abcdef", d + 1, d + 1)

C17_HexEncoding ==
    hashHex # NULL =>
        LET hex == hashHex[1] IN
        /\ Len(hex) = 2 * Len(hashArray)
        /\ \A i \in 1..Len(hashArray) :
               SubSeq(hex, 2 * i - 1, 2 * i) =
                   LowerHexDigit(hashArray[i] \div 16) \o LowerHexDigit(hashArray[i] % 16)
        /\ Len(hashArray) = 32 => Len(hex) = 64
        /\ \A other \in HexInputs : other # hashArray => HashHex(other) # hex

\* two bytes below 16 have been encoded, each with its leading zero
C17_Witness == hashArray = <<10, 0>> /\ hashHex = <<"0a00">>

(***************************************************************************)
(* C18.  The style of the status line matches the outcome the line         *)
(* reports: green after a verify that returned VERIFIED_OK, red after one  *)
(* that returned NOT_FOUND, dark red after a failed hash, register or      *)
(* verify, and gray in every other case.                                   *)
(***************************************************************************)
C18_StyleMatchesOutcome ==
    StatusLineStyle.color =
        IF Succeeded("verify") /\ StatusField(Returned) = "VERIFIED_OK" THEN "green"
        ELSE IF Succeeded("verify") /\ StatusField(Returned) = "NOT_FOUND" THEN "red"
        ELSE IF \E stage \in {"hash", "register", "verify"} : Failed(stage) THEN "darkred"
        ELSE "gray"

====
